---- MODULE Spec2Model ----
(***************************************************************************)
(* Model of src/App.tsx: the App component's extraction state machine      *)
(* (handleImageSelect, handleExtractText and the two awaited calls), the   *)
(* ResultDisplay component (handleCopy, renderText) and the legend table.  *)
(*                                                                         *)
(* A JavaScript string is modelled as a sequence of one-character strings, *)
(* so '' is <<>>.  null is the value Null.                                 *)
(***************************************************************************)
EXTENDS Integers, Sequences, FiniteSets, TLC

\* ------------------------------------------------------------------ bounds

\* Longest transcript handed to renderText in SpecParse.
MaxLen == 4

\* Invocations of handleExtractText in one run.
MaxTriggers == 3

\* setTimeout callbacks of handleCopy pending at once.
MaxTimers == 2

\* ------------------------------------------------------------- characters

NL == "\n"
CR == "\r"
SP == " "

\* The characters transcripts are built from: the seven legend characters,
\* a letter, a blank, a carriage return and the newline.
Alphabet == {"#", "$", "&", "(", ")", "/", "_", "a", SP, CR, NL}

\* White space as String.prototype.trim sees it (restricted to Alphabet and
\* the tab).
WhiteSpace == {SP, CR, NL, "\t"}

Null == "null"

\* ------------------------------------------------------------ LEGEND_ITEMS

\* LEGEND_ITEMS as it would be were '_' left out of the table.
LEGEND_ITEMS_six ==
  << [char |-> "#", color |-> "text-cyan-400"],
     [char |-> "$", color |-> "text-purple-400"],
     [char |-> "&", color |-> "text-amber-400"],
     [char |-> "(", color |-> "text-orange-400"],
     [char |-> ")", color |-> "text-red-400"],
     [char |-> "/", color |-> "text-green-400"] >>

LEGEND_ITEMS ==
  << [char |-> "#", color |-> "text-cyan-400"],
     [char |-> "$", color |-> "text-purple-400"],
     [char |-> "&", color |-> "text-amber-400"],
     [char |-> "(", color |-> "text-orange-400"],
     [char |-> ")", color |-> "text-red-400"],
     [char |-> "/", color |-> "text-green-400"],
     [char |-> "_", color |-> "text-gray-400"] >>

\* ------------------------------------------------- string primitives (JS)

\* line.startsWith(c) for a one-character string c.
startsWith(line, c) == Len(line) >= 1 /\ line[1] = c

\* line.substring(n): the characters from 0-based index n on.
substring(line, n) == SubSeq(line, n + 1, Len(line))

RECURSIVE trimStart(_)
trimStart(s) ==
  IF s # <<>> /\ s[1] \in WhiteSpace THEN trimStart(Tail(s)) ELSE s

RECURSIVE trimEnd(_)
trimEnd(s) ==
  IF s # <<>> /\ s[Len(s)] \in WhiteSpace
    THEN trimEnd(SubSeq(s, 1, Len(s) - 1))
    ELSE s

\* s.trim()
trim(s) == trimEnd(trimStart(s))

\* text.split('\n'): always at least one segment; '' gives [''].
RECURSIVE splitFrom(_, _)
splitFrom(text, cur) ==
  IF text = <<>> THEN << cur >>
  ELSE IF Head(text) = NL THEN << cur >> \o splitFrom(Tail(text), <<>>)
  ELSE splitFrom(Tail(text), Append(cur, Head(text)))

\* split as it would be were empty segments dropped
\* (text.split('\n').filter(Boolean)).
split_skipEmpty(text) ==
  SelectSeq(splitFrom(text, <<>>), LAMBDA seg : seg # <<>>)

\* split as it would be were line ends normalised (text.split(/\r?\n/)): a
\* carriage return before a newline goes with the separator.
split_crlf(text) ==
  LET segs == splitFrom(text, <<>>)
  IN  [ i \in 1..Len(segs) |->
          IF i < Len(segs) /\ segs[i] # <<>> /\ segs[i][Len(segs[i])] = CR
            THEN SubSeq(segs[i], 1, Len(segs[i]) - 1)
            ELSE segs[i] ]

split(text) == splitFrom(text, <<>>)

\* What Array.prototype.find returns when no entry matches (undefined),
\* shaped like an entry so that it compares with one.
NotFound == [char |-> Null, color |-> Null]

\* LEGEND_ITEMS.find(item => line.startsWith(item.char)): the first entry,
\* in table order, whose char the line starts with; NotFound when there is
\* none.
RECURSIVE findFrom(_, _)
findFrom(line, i) ==
  IF i > Len(LEGEND_ITEMS) THEN NotFound
  ELSE IF startsWith(line, LEGEND_ITEMS[i].char) THEN LEGEND_ITEMS[i]
  ELSE findFrom(line, i + 1)

find(line) == findFrom(line, 1)

\* ---------------------------------------------------------------- renderText

\* markedLine as it would be without the call of trim.
markedLine_noTrim(line, marker) ==
  [marker |-> marker.char, color |-> marker.color,
   text |-> substring(line, 1)]

\* The element renderText builds for a line with a marker: the marker's
\* character in the marker's colour, then line.substring(1).trim().
markedLine(line, marker) ==
  [marker |-> marker.char, color |-> marker.color,
   text |-> trim(substring(line, 1))]

\* plainLine as it would be were the line trimmed as a marked one is.
plainLine_trimmed(line) ==
  [marker |-> Null, color |-> Null, text |-> trim(line)]

\* The element for a line without marker: the line itself.
plainLine(line) ==
  [marker |-> Null, color |-> Null, text |-> line]

renderLine(line) ==
  LET marker == find(line)
  IN  IF marker # NotFound THEN markedLine(line, marker) ELSE plainLine(line)

\* renderText as it would be with a guard returning no element for ''.
renderText_emptyGuard(text) ==
  IF text = <<>> THEN <<>>
  ELSE LET lines == split(text)
       IN  [index \in 1..Len(lines) |-> renderLine(lines[index])]

renderText(text) ==
  LET lines == split(text)
  IN  [index \in 1..Len(lines) |-> renderLine(lines[index])]

\* ------------------------------------------------------------------ state

\* The files the user can pick, and what URL.createObjectURL gives for each.
Files == {"A", "B"}

createObjectURL(file) == IF file = "A" THEN "blob:A" ELSE "blob:B"

\* The transcripts extractTextFromImage can resolve with.
Results == { <<>>, <<"#", "a">>, <<"_", "a", NL, "a">> }

\* The values the awaited calls can reject with.
Errors == {"NotReadableError", "NetworkError"}

\* setError("الرجاء اختيار صورة أولاً.")
ValidationMessage == "Please choose an image first."

\* setError("حدث خطأ أثناء استخراج النص. الرجاء المحاولة مرة أخرى.")
ExtractionErrorMessage == "An error occurred while extracting the text. Please try again."

VARIABLES
  imageFile,      \* useState<File | null>(null)
  imageUrl,       \* useState<string | null>(null)
  extractedText,  \* useState<string>('')
  isLoading,      \* useState<boolean>(false)
  error,          \* useState<string | null>(null)
  copied,         \* ResultDisplay's useState(false)
  clipboard,      \* what navigator.clipboard.writeText was last given
  timers,         \* setTimeout callbacks of handleCopy not yet run
  calls,          \* invocations of handleExtractText suspended at an await
  triggers,       \* history: invocations of handleExtractText so far
  encodeCalls,    \* history: fileToBase64 calls so far
  extractCalls,   \* history: extractTextFromImage calls so far
  lastOp,         \* history: the step taken last
  transcript,     \* SpecParse: the string given to renderText
  rendered,       \* SpecParse: what renderText returned
  parsePc         \* SpecParse: "off", "ready" or "done"

appVars ==
  << imageFile, imageUrl, extractedText, isLoading, error, copied, clipboard,
     timers, calls, triggers, encodeCalls, extractCalls, lastOp >>

parseVars == << transcript, rendered, parsePc >>

vars == << appVars, parseVars >>

\* The request state the five fields show: the loading flag first, then
\* the error, then the result text, as ResultDisplay tests them.
RequestState ==
  IF isLoading THEN "Loading"
  ELSE IF error # Null THEN "Failed"
  ELSE IF extractedText # <<>> THEN "Succeeded"
  ELSE "Idle"

\* The record kept in lastOp: the step, the call it belongs to (0: none),
\* whether an image was selected after that call started, the value the
\* awaited call settled with, and the request state the step started in.
Op(name, id, stale, result, err) ==
  [op |-> name, id |-> id, stale |-> stale, result |-> result, err |-> err,
   from |-> RequestState]

AppInit ==
  /\ imageFile = Null
  /\ imageUrl = Null
  /\ extractedText = <<>>
  /\ isLoading = FALSE
  /\ error = Null
  /\ copied = FALSE
  /\ clipboard = <<>>
  /\ timers = 0
  /\ calls = {}
  /\ triggers = 0
  /\ encodeCalls = 0
  /\ extractCalls = 0
  /\ lastOp = [op |-> "init", id |-> 0, stale |-> FALSE, result |-> <<>>,
               err |-> Null, from |-> "Idle"]

ParseOff ==
  /\ transcript = <<>>
  /\ rendered = <<>>
  /\ parsePc = "off"

Init == AppInit /\ ParseOff

\* --------------------------------------------------------------- rendering

\* What ResultDisplay shows for the current props: the loading overlay, the
\* error box, and, when neither, the copy button with the rendered lines
\* (extractedText truthy) or the placeholder.
ResultDisplay ==
  LET body == ~isLoading /\ error = Null
  IN  [ overlay     |-> isLoading,
        errorBox    |-> error,
        copyButton  |-> body /\ extractedText # <<>>,
        lines       |-> IF body /\ extractedText # <<>>
                          THEN renderText(extractedText) ELSE <<>>,
        placeholder |-> body /\ extractedText = <<>> ]

\* The extract button: rendered only with a preview URL, disabled while
\* loading.
ExtractButton == [shown |-> imageUrl # Null, disabled |-> isLoading]

\* ------------------------------------------------------- handleImageSelect

\* History only: every suspended call now belongs to an earlier selection.
supersedeAll(cs) ==
  { [c EXCEPT !.superseded = TRUE] : c \in cs }

\* selectImage as it would be were the loading flag reset on selection with
\* nothing else done about the pending call.
selectImage_resetLoading(file) ==
  /\ imageFile' = file
  /\ imageUrl' = createObjectURL(file)
  /\ extractedText' = <<>>
  /\ error' = Null
  /\ isLoading' = FALSE

selectImage(file) ==
  /\ imageFile' = file
  /\ imageUrl' = createObjectURL(file)
  /\ extractedText' = <<>>
  /\ error' = Null
  /\ UNCHANGED isLoading

handleImageSelect ==
  \E file \in Files :
    /\ selectImage(file)
    /\ calls' = supersedeAll(calls)
    /\ lastOp' = Op("select", 0, FALSE, <<>>, Null)
    /\ UNCHANGED << copied, clipboard, timers, triggers, encodeCalls,
                    extractCalls, parseVars >>

\* ------------------------------------------------------- handleExtractText

\* handleExtractText as it would be without its first statement (the
\* imageFile check): it goes on to set the fields and to call fileToBase64.
handleExtractText_noCheck ==
  /\ triggers < MaxTriggers
  /\ triggers' = triggers + 1
  /\ isLoading' = TRUE
  /\ error' = Null
  /\ extractedText' = <<>>
  /\ calls' = calls \cup
       { [ id |-> triggers + 1, file |-> imageFile,
           awaiting |-> "fileToBase64", superseded |-> FALSE ] }
  /\ encodeCalls' = encodeCalls + 1
  /\ lastOp' = Op("trigger", triggers + 1, FALSE, <<>>, Null)
  /\ UNCHANGED << imageFile, imageUrl, copied, clipboard, timers,
                  extractCalls, parseVars >>

\* handleExtractText as it would be without setError(null).
handleExtractText_keepError ==
  /\ triggers < MaxTriggers
  /\ triggers' = triggers + 1
  /\ IF imageFile = Null
       THEN /\ error' = ValidationMessage
            /\ lastOp' = Op("invalid", 0, FALSE, <<>>, Null)
            /\ UNCHANGED << isLoading, extractedText, calls, encodeCalls >>
       ELSE /\ isLoading' = TRUE
            /\ error' = error
            /\ extractedText' = <<>>
            /\ calls' = calls \cup
                 { [ id |-> triggers + 1, file |-> imageFile,
                     awaiting |-> "fileToBase64", superseded |-> FALSE ] }
            /\ encodeCalls' = encodeCalls + 1
            /\ lastOp' = Op("trigger", triggers + 1, FALSE, <<>>, Null)
  /\ UNCHANGED << imageFile, imageUrl, copied, clipboard, timers,
                  extractCalls, parseVars >>

\* handleExtractText as it would be without setExtractedText('').
handleExtractText_keepText ==
  /\ triggers < MaxTriggers
  /\ triggers' = triggers + 1
  /\ IF imageFile = Null
       THEN /\ error' = ValidationMessage
            /\ lastOp' = Op("invalid", 0, FALSE, <<>>, Null)
            /\ UNCHANGED << isLoading, extractedText, calls, encodeCalls >>
       ELSE /\ isLoading' = TRUE
            /\ error' = Null
            /\ UNCHANGED extractedText
            /\ calls' = calls \cup
                 { [ id |-> triggers + 1, file |-> imageFile,
                     awaiting |-> "fileToBase64", superseded |-> FALSE ] }
            /\ encodeCalls' = encodeCalls + 1
            /\ lastOp' = Op("trigger", triggers + 1, FALSE, <<>>, Null)
  /\ UNCHANGED << imageFile, imageUrl, copied, clipboard, timers,
                  extractCalls, parseVars >>

\* The handler up to its first await.  Without an image it only sets the
\* validation message; with one it sets the three fields and calls
\* fileToBase64(imageFile), where it suspends.
handleExtractText ==
  /\ triggers < MaxTriggers
  /\ triggers' = triggers + 1
  /\ IF imageFile = Null
       THEN /\ error' = ValidationMessage
            /\ lastOp' = Op("invalid", 0, FALSE, <<>>, Null)
            /\ UNCHANGED << isLoading, extractedText, calls, encodeCalls >>
       ELSE /\ isLoading' = TRUE
            /\ error' = Null
            /\ extractedText' = <<>>
            /\ calls' = calls \cup
                 { [ id |-> triggers + 1, file |-> imageFile,
                     awaiting |-> "fileToBase64", superseded |-> FALSE ] }
            /\ encodeCalls' = encodeCalls + 1
            /\ lastOp' = Op("trigger", triggers + 1, FALSE, <<>>, Null)
  /\ UNCHANGED << imageFile, imageUrl, copied, clipboard, timers,
                  extractCalls, parseVars >>

\* A click on the extract button, which exists once an image was selected
\* and is disabled while isLoading.
clickExtract ==
  /\ ExtractButton.shown
  /\ ~ExtractButton.disabled
  /\ handleExtractText

\* handleExtractText run while no image is selected.  The component renders
\* no control for it (the button needs imageUrl); the handler provides for
\* it with its first statement.
extractWithoutImage ==
  /\ imageFile = Null
  /\ handleExtractText

\* catchMessage as it would be were the thrown value shown.
catchMessage_detail(err) == err

\* The message the catch block shows for the value thrown.
catchMessage(err) == ExtractionErrorMessage

\* try: fileToBase64 resolved; the handler reads imageFile.type and calls
\* extractTextFromImage, where it suspends again.
encodeResolved ==
  \E c \in calls :
    /\ c.awaiting = "fileToBase64"
    /\ calls' = (calls \ {c}) \cup
                  { [c EXCEPT !.awaiting = "extractTextFromImage"] }
    /\ extractCalls' = extractCalls + 1
    /\ lastOp' = Op("encoded", c.id, c.superseded, <<>>, Null)
    /\ UNCHANGED << imageFile, imageUrl, extractedText, isLoading, error,
                    copied, clipboard, timers, triggers, encodeCalls,
                    parseVars >>

\* settleRejected as it would be without the finally block: the catch
\* block sets the message, the loading flag stays.
settleRejected_noFinally(c, err, name) ==
  /\ error' = catchMessage(err)
  /\ UNCHANGED isLoading
  /\ calls' = calls \ {c}
  /\ lastOp' = Op(name, c.id, c.superseded, <<>>, err)
  /\ UNCHANGED << imageFile, imageUrl, extractedText, copied, clipboard,
                  timers, triggers, encodeCalls, extractCalls, parseVars >>

\* settleRejected as it would be with an automatic retry: the catch block
\* calls fileToBase64 again for the same invocation.
settleRejected_retry(c, err, name) ==
  /\ error' = catchMessage(err)
  /\ UNCHANGED isLoading
  /\ calls' = (calls \ {c}) \cup { [c EXCEPT !.awaiting = "fileToBase64"] }
  /\ encodeCalls' = encodeCalls + 1
  /\ lastOp' = Op(name, c.id, c.superseded, <<>>, err)
  /\ UNCHANGED << imageFile, imageUrl, extractedText, copied, clipboard,
                  timers, triggers, extractCalls, parseVars >>

\* catch and finally, run when either awaited call rejects with err.
settleRejected(c, err, name) ==
  /\ error' = catchMessage(err)
  /\ isLoading' = FALSE
  /\ calls' = calls \ {c}
  /\ lastOp' = Op(name, c.id, c.superseded, <<>>, err)
  /\ UNCHANGED << imageFile, imageUrl, extractedText, copied, clipboard,
                  timers, triggers, encodeCalls, extractCalls, parseVars >>

\* encodeRejected as it would be were fileToBase64 awaited outside the try
\* block: the rejection leaves the handler, nothing is set.
encodeRejected_uncaught ==
  \E c \in calls, err \in Errors :
    /\ c.awaiting = "fileToBase64"
    /\ calls' = calls \ {c}
    /\ lastOp' = Op("encodeRejected", c.id, c.superseded, <<>>, err)
    /\ UNCHANGED << imageFile, imageUrl, extractedText, isLoading, error,
                    copied, clipboard, timers, triggers, encodeCalls,
                    extractCalls, parseVars >>

encodeRejected ==
  \E c \in calls, err \in Errors :
    /\ c.awaiting = "fileToBase64"
    /\ settleRejected(c, err, "encodeRejected")

extractRejected ==
  \E c \in calls, err \in Errors :
    /\ c.awaiting = "extractTextFromImage"
    /\ settleRejected(c, err, "extractRejected")

\* settleResolved as it would be were setIsLoading(false) left out of the
\* success path (no finally block).
settleResolved_stillLoading(c, result) ==
  /\ extractedText' = result
  /\ UNCHANGED isLoading
  /\ calls' = calls \ {c}
  /\ lastOp' = Op("extracted", c.id, c.superseded, result, Null)
  /\ UNCHANGED << imageFile, imageUrl, error, copied, clipboard, timers,
                  triggers, encodeCalls, extractCalls, parseVars >>

\* The rest of the try block and finally, run when extractTextFromImage
\* resolves with result.
settleResolved(c, result) ==
  /\ extractedText' = result
  /\ isLoading' = FALSE
  /\ calls' = calls \ {c}
  /\ lastOp' = Op("extracted", c.id, c.superseded, result, Null)
  /\ UNCHANGED << imageFile, imageUrl, error, copied, clipboard, timers,
                  triggers, encodeCalls, extractCalls, parseVars >>

extractResolved ==
  \E c \in calls, result \in Results :
    /\ c.awaiting = "extractTextFromImage"
    /\ settleResolved(c, result)

\* --------------------------------------------------------------- handleCopy

\* handleCopy as it would be were the text cut instead of copied.
handleCopy_cut ==
  /\ ResultDisplay.copyButton
  /\ timers < MaxTimers
  /\ clipboard' = extractedText
  /\ extractedText' = <<>>
  /\ copied' = TRUE
  /\ timers' = timers + 1
  /\ lastOp' = Op("copy", 0, FALSE, <<>>, Null)
  /\ UNCHANGED << imageFile, imageUrl, isLoading, error,
                  calls, triggers, encodeCalls, extractCalls, parseVars >>

handleCopy ==
  /\ ResultDisplay.copyButton
  /\ timers < MaxTimers
  /\ clipboard' = extractedText
  /\ copied' = TRUE
  /\ timers' = timers + 1
  /\ lastOp' = Op("copy", 0, FALSE, <<>>, Null)
  /\ UNCHANGED << imageFile, imageUrl, extractedText, isLoading, error,
                  calls, triggers, encodeCalls, extractCalls, parseVars >>

\* setTimeout(() => setCopied(false), 2000)
copyTimeout ==
  /\ timers > 0
  /\ copied' = FALSE
  /\ timers' = timers - 1
  /\ lastOp' = Op("copyTimeout", 0, FALSE, <<>>, Null)
  /\ UNCHANGED << imageFile, imageUrl, extractedText, isLoading, error,
                  clipboard, calls, triggers, encodeCalls, extractCalls,
                  parseVars >>

\* ------------------------------------------------------------ specification

Next ==
  \/ handleImageSelect
  \/ clickExtract
  \/ extractWithoutImage
  \/ encodeResolved
  \/ encodeRejected
  \/ extractResolved
  \/ extractRejected
  \/ handleCopy
  \/ copyTimeout

Spec == Init /\ [][Next]_vars

\* Every awaited call settles: a pending fileToBase64 resolves or rejects,
\* and so does a pending extractTextFromImage.
encodeSettles == encodeResolved \/ encodeRejected

extractSettles == extractResolved \/ extractRejected

SpecSettling ==
  /\ Init
  /\ [][Next]_vars
  /\ WF_vars(encodeSettles)
  /\ WF_vars(extractSettles)

\* ------------------------------------------------ renderText on its own

\* Every string over Alphabet of length at most n.
RECURSIVE StringsUpTo(_)
StringsUpTo(n) ==
  IF n = 0 THEN { <<>> }
  ELSE LET shorter == StringsUpTo(n - 1)
       IN  shorter \cup { Append(s, ch) : s \in shorter, ch \in Alphabet }

ParseInit ==
  /\ AppInit
  /\ transcript \in StringsUpTo(MaxLen)
  /\ rendered = <<>>
  /\ parsePc = "ready"

callRenderText ==
  /\ parsePc = "ready"
  /\ rendered' = renderText(transcript)
  /\ parsePc' = "done"
  /\ UNCHANGED << transcript, appVars >>

ParseNext == callRenderText

SpecParse == ParseInit /\ [][ParseNext]_vars

\* ================================================================ properties

\* The steps that end a call of handleExtractText with a rejection.
RejectOps == {"encodeRejected", "extractRejected"}

\* C1: the successful result of a request that was pending when another
\* image was selected is not written to the displayed text: right after
\* such a request resolves, extractedText is still empty.
C1_StaleSuccessNotRendered ==
  (lastOp.op = "extracted" /\ lastOp.stale) => extractedText = <<>>

\* C2: the failure of a request that was pending when another image was
\* selected does not set the error: right after such a request rejects,
\* error is null.
C2_StaleFailureNotSurfaced ==
  (lastOp.op \in RejectOps /\ lastOp.stale) => error = Null

\* C3: right after handleImageSelect the state is Idle, whatever it was:
\* not loading, no error, empty result text.
C3_SelectGoesIdle ==
  lastOp.op = "select" =>
    /\ ~isLoading
    /\ error = Null
    /\ extractedText = <<>>

\* C4: once extraction was triggered with no image selected, and for as
\* long as none is selected, the loading flag is false, no call of the
\* encoder or of the extraction capability was made or is pending, the
\* result text is empty and the validation message is shown.
C4_NoImageNoLoading ==
  (imageFile = Null /\ triggers > 0) =>
    /\ ~isLoading
    /\ calls = {}
    /\ encodeCalls = 0
    /\ extractCalls = 0
    /\ extractedText = <<>>
    /\ error = ValidationMessage
    /\ ValidationMessage \notin {Null, ""}

C4_Witness ==
  /\ imageFile = Null
  /\ lastOp.op = "invalid"
  /\ error = ValidationMessage

\* C5: right after the extraction call of the active request (no image
\* selected since it started) rejects, loading is false, the error is the
\* one static non-empty message whatever the value rejected with, and the
\* result text is empty.
C5_RejectGoesFailed ==
  (lastOp.op = "extractRejected" /\ ~lastOp.stale) =>
    /\ ~isLoading
    /\ error = ExtractionErrorMessage
    /\ error \notin {Null, ""}
    /\ error # lastOp.err
    /\ extractedText = <<>>
    /\ ResultDisplay.lines = <<>>

C5_Witness ==
  /\ lastOp.op = "extractRejected"
  /\ ~lastOp.stale
  /\ lastOp.err = "NetworkError"
  /\ triggers > 1

\* C6: right after the extraction call of the active request resolves,
\* loading is false, error is null and the result text is exactly the
\* string resolved with; ResultDisplay shows neither overlay nor error and,
\* for a non-empty string, that string's lines.
C6_ResolveGoesSucceeded ==
  (lastOp.op = "extracted" /\ ~lastOp.stale) =>
    /\ ~isLoading
    /\ error = Null
    /\ extractedText = lastOp.result
    /\ ~ResultDisplay.overlay
    /\ ResultDisplay.errorBox = Null
    /\ lastOp.result # <<>> => ResultDisplay.lines = renderText(lastOp.result)

C6_Witness ==
  /\ lastOp.op = "extracted"
  /\ ~lastOp.stale
  /\ lastOp.result = <<"_", "a", NL, "a">>
  /\ extractedText = lastOp.result

\* C7: at most one of: loading flag true, error present, result text
\* non-empty.
C7_OneStateAtATime ==
  /\ ~(isLoading /\ error # Null)
  /\ ~(isLoading /\ extractedText # <<>>)
  /\ ~(error # Null /\ extractedText # <<>>)

\* A trigger after an earlier failure: loading, with the earlier error gone.
C7_Witness ==
  /\ isLoading
  /\ lastOp.op = "trigger"
  /\ triggers > 1
  /\ error = Null

\* ---------------------------------------------- properties of renderText

\* The six characters the specification lists as markers.
SixMarkers == {"#", "$", "&", "(", ")", "/"}

\* The positions of the newline characters of s.
NewlinePositions(s) == { p \in 1..Len(s) : s[p] = NL }

\* The position of the k-th newline of s.
NewlineAt(s, k) ==
  CHOOSE p \in NewlinePositions(s) :
    Cardinality({ q \in NewlinePositions(s) : q < p }) = k - 1

\* The number of segments the newlines cut s into.
SegmentCount(s) == Cardinality(NewlinePositions(s)) + 1

\* The i-th of them: what lies between the (i-1)-th and the i-th newline.
Segment(s, i) ==
  LET lo == IF i = 1 THEN 1 ELSE NewlineAt(s, i - 1) + 1
      hi == IF i = SegmentCount(s) THEN Len(s) ELSE NewlineAt(s, i) - 1
  IN  SubSeq(s, lo, hi)

\* t is s without its leading and trailing white space: s is white space,
\* then t, then white space, and t neither starts nor ends with white space.
IsTrimOf(t, s) ==
  \E a \in 1..(Len(s) + 1), b \in 0..Len(s) :
    /\ t = SubSeq(s, a, b)
    /\ \A p \in 1..(a - 1) : s[p] \in WhiteSpace
    /\ \A p \in (b + 1)..Len(s) : s[p] \in WhiteSpace
    /\ a <= b => (s[a] \notin WhiteSpace /\ s[b] \notin WhiteSpace)

\* The segments of the transcript that start with character ch.
SegmentsStartingWith(chars) ==
  { i \in 1..SegmentCount(transcript) :
      /\ Segment(transcript, i) # <<>>
      /\ Segment(transcript, i)[1] \in chars }

\* C8 as stated: a line whose first character is '_' comes out with no
\* marker and with the line itself, unstripped and untrimmed, as its text.
C8_UnderscoreUnmarked ==
  parsePc = "done" =>
    \A i \in SegmentsStartingWith({"_"}) :
      /\ i \in DOMAIN rendered
      /\ rendered[i].marker = Null
      /\ rendered[i].text = Segment(transcript, i)

\* C8 as amended: a line whose first character is '_' comes out with the
\* marker '_' and, as text, the line without its first character, trimmed.
C8_UnderscoreIsMarker ==
  parsePc = "done" =>
    \A i \in SegmentsStartingWith({"_"}) :
      /\ i \in DOMAIN rendered
      /\ rendered[i].marker = "_"
      /\ IsTrimOf(rendered[i].text, Tail(Segment(transcript, i)))

C8_Witness ==
  /\ parsePc = "done"
  /\ transcript = <<"_", "a", SP, NL>>
  /\ rendered[1].marker = "_"
  /\ rendered[1].text = <<"a">>

\* C9: a line whose first character is one of # $ & ( ) / comes out with
\* that character as marker and, as text, the line without its first
\* character, trimmed; a line that is only a marker has the empty text.
C9_MarkerStripped ==
  parsePc = "done" =>
    \A i \in SegmentsStartingWith(SixMarkers) :
      LET line == Segment(transcript, i)
      IN  /\ i \in DOMAIN rendered
          /\ rendered[i].marker = line[1]
          /\ IsTrimOf(rendered[i].text, Tail(line))
          /\ Len(line) = 1 => rendered[i].text = <<>>

\* A marker line with white space on both sides of its text.
C9_Witness ==
  /\ parsePc = "done"
  /\ \E i \in SegmentsStartingWith(SixMarkers) :
       LET line == Segment(transcript, i)
       IN  /\ Len(line) = 4
           /\ line[2] \in WhiteSpace
           /\ line[4] \in WhiteSpace
           /\ line[3] \notin WhiteSpace
           /\ rendered[i].text = << line[3] >>

\* C10: the output has one entry per segment of the transcript, and the
\* i-th entry is what the i-th segment is classified as.
C10_OnePerSegmentInOrder ==
  parsePc = "done" =>
    /\ Len(rendered) = SegmentCount(transcript)
    /\ \A i \in 1..SegmentCount(transcript) :
         rendered[i] = renderLine(Segment(transcript, i))

\* Two lines with the same marker and text, around an empty line.
C10_Witness ==
  /\ parsePc = "done"
  /\ transcript = <<"#", NL, NL, "#">>
  /\ Len(rendered) = 3
  /\ rendered[1] = rendered[3]
  /\ rendered[2].marker = Null

C12_TriggerEntersLoading ==
  lastOp.op = "trigger" =>
    /\ isLoading
    /\ error = Null
    /\ extractedText = <<>>
    /\ \E c \in calls : c.id = lastOp.id /\ c.awaiting = "fileToBase64"

\* A trigger from Succeeded; C12_FromFailed and C12_FromIdle are the other
\* two starting states.
C12_Witness ==
  /\ lastOp.op = "trigger"
  /\ lastOp.from = "Succeeded"
  /\ isLoading

C12_FromFailed == lastOp.op = "trigger" /\ lastOp.from = "Failed"

C12_FromIdle == lastOp.op = "trigger" /\ lastOp.from = "Idle"

\* C13: a step makes at most one encoder call and at most one extraction
\* call; an encoder call is made only by a step that is a trigger, an
\* extraction call only by a step in which a pending encoder call ends; so
\* extraction calls never outnumber encoder calls, nor these the triggers,
\* and a failure is followed by no call until the next trigger.
C13_SingleAttempt ==
  [][ /\ encodeCalls' \in {encodeCalls, encodeCalls + 1}
      /\ extractCalls' \in {extractCalls, extractCalls + 1}
      /\ encodeCalls' # encodeCalls => triggers' = triggers + 1
      /\ extractCalls' # extractCalls =>
           /\ triggers' = triggers
           /\ \E c \in calls : c.awaiting = "fileToBase64" /\ c \notin calls'
      /\ extractCalls' <= encodeCalls'
      /\ encodeCalls' <= triggers'
      /\ lastOp'.op \in RejectOps => \A c \in calls' : c.id # lastOp'.id
    ]_vars

\* A second trigger's call failed after the first one's did: two triggers,
\* two encoder calls, nothing pending.
C13_Witness ==
  /\ lastOp.op \in RejectOps
  /\ triggers = 2
  /\ encodeCalls = 2
  /\ calls = {}

\* C14: a step of the copy action or of its timer (the only steps that
\* change the copied flag, the clipboard or the pending timers) leaves the
\* selected image, the result text, the loading flag and the error as they
\* were.
C14_CopyLeavesExtractionState ==
  [][ (copied' # copied \/ clipboard' # clipboard \/ timers' # timers) =>
        UNCHANGED << imageFile, imageUrl, extractedText, isLoading, error,
                     calls >>
    ]_vars

\* The timer ran after a copy and the copied text is still displayed.
C14_Witness ==
  /\ lastOp.op = "copyTimeout"
  /\ ~copied
  /\ clipboard # <<>>
  /\ extractedText = clipboard

\* ------------------------------------- further properties of renderText

\* The characters of the legend table.
LegendChars == { LEGEND_ITEMS[k].char : k \in 1..Len(LEGEND_ITEMS) }

\* The segments of the transcript that are empty or start with a character
\* that is none of the legend's.
UnmarkedSegments ==
  { i \in 1..SegmentCount(transcript) :
      \/ Segment(transcript, i) = <<>>
      \/ Segment(transcript, i)[1] \notin LegendChars }

\* The segments of the transcript that end with a carriage return.
SegmentsEndingWithCR ==
  { i \in 1..SegmentCount(transcript) :
      /\ Segment(transcript, i) # <<>>
      /\ Segment(transcript, i)[Len(Segment(transcript, i))] = CR }

EndsWithCR(s) == s # <<>> /\ s[Len(s)] = CR

\* C15: a line that is empty, or whose first character is none of the
\* legend's characters (white space before such a character included),
\* comes out without marker and with the line itself, untrimmed, as text.
C15_ExactFirstCharacter ==
  parsePc = "done" =>
    \A i \in UnmarkedSegments :
      /\ i \in DOMAIN rendered
      /\ rendered[i].marker = Null
      /\ rendered[i].text = Segment(transcript, i)

\* A line with a blank before a marker character, then an empty line.
C15_Witness ==
  /\ parsePc = "done"
  /\ transcript = <<SP, "#", SP, NL>>
  /\ rendered[1].marker = Null
  /\ rendered[1].text = <<SP, "#", SP>>
  /\ rendered[2].text = <<>>

\* C16 as stated: every line that ends with a carriage return, marked or
\* not, has that carriage return at the end of its output text.
C16_CRKeptEverywhere ==
  parsePc = "done" =>
    \A i \in SegmentsEndingWithCR :
      i \in DOMAIN rendered /\ EndsWithCR(rendered[i].text)

\* C16 as amended: the output has one entry per newline, carriage returns
\* or not; a line that ends with a carriage return keeps it in its output
\* text when it has no marker, and loses it to the trimming when it has one.
C16_CRKeptUnlessTrimmed ==
  parsePc = "done" =>
    /\ Len(rendered) = SegmentCount(transcript)
    /\ \A i \in SegmentsEndingWithCR :
         IF i \in UnmarkedSegments
           THEN /\ rendered[i].marker = Null
                /\ rendered[i].text = Segment(transcript, i)
                /\ EndsWithCR(rendered[i].text)
           ELSE /\ rendered[i].marker = Segment(transcript, i)[1]
                /\ ~EndsWithCR(rendered[i].text)
                /\ IsTrimOf(rendered[i].text, Tail(Segment(transcript, i)))

\* An unmarked and a marked line, each ending with a carriage return.
C16_Witness ==
  /\ parsePc = "done"
  /\ transcript = <<CR, NL, "#", CR>>
  /\ rendered[1].text = << CR >>
  /\ rendered[2].marker = "#"
  /\ rendered[2].text = <<>>

\* -------------------------------- further properties of the state machine

\* C17: the extraction capability is called only in a step that ends a
\* pending encoder call of the same invocation with success; a step in
\* which an invocation's encoder call ends without the invocation going on
\* calls no extraction and leaves the state Failed with the generic message.
C17_EncodeFirstAndCaught ==
  [][ /\ extractCalls' # extractCalls =>
           \E c \in calls :
             /\ c.awaiting = "fileToBase64"
             /\ c \notin calls'
             /\ [c EXCEPT !.awaiting = "extractTextFromImage"] \in calls'
      /\ \A c \in calls :
           (c.awaiting = "fileToBase64" /\ \A d \in calls' : d.id # c.id) =>
             /\ extractCalls' = extractCalls
             /\ ~isLoading'
             /\ error' = ExtractionErrorMessage
             /\ extractedText' = <<>>
    ]_vars

C17_Witness ==
  /\ lastOp.op = "encodeRejected"
  /\ extractCalls = 0
  /\ encodeCalls = 1
  /\ RequestState = "Failed"
  /\ error = ExtractionErrorMessage

\* C18: at most one invocation of handleExtractText is suspended at an
\* await at any time, and the loading flag is true exactly while one is.
C18_OneInFlight ==
  /\ Cardinality(calls) <= 1
  /\ isLoading <=> calls # {}

\* An image was selected while a request is pending: still one call, still
\* loading.
C18_Witness ==
  /\ lastOp.op = "select"
  /\ lastOp.from = "Loading"
  /\ Cardinality(calls) = 1
  /\ \A c \in calls : c.superseded

\* C19: given that every awaited call settles, a state with the loading
\* flag true is always followed by one with the loading flag false.
C19_LoadingEnds == isLoading ~> ~isLoading

\* Loading ended by the failure of a call that a selection had superseded.
C19_Witness ==
  /\ lastOp.op \in RejectOps
  /\ lastOp.stale
  /\ lastOp.from = "Loading"
  /\ ~isLoading

====
